---------------------------- MODULE Spec2Model ----------------------------
(***************************************************************************)
(* dask-histogram: the graph builders of src/dask_histogram/core.py        *)
(* (factory, _reduced_histogram, _reduction, BinaryOp, the operators of    *)
(* AggHistogram) and the execution of the graphs they build by a scheduler *)
(* that runs a task once all of its argument keys have a result.           *)
(*                                                                         *)
(* Names are modelled as sequences of integers: a prefix code, followed by *)
(* the tokenized inputs.  tokenize is taken to be injective, so a token is *)
(* the (self-delimiting) sequence of what was tokenized.                   *)
(***************************************************************************)
EXTENDS Integers, Sequences, FiniteSets, TLC

\* ------------------------------------------------------------------ bounds
\* Largest partition count of a collection that is built and then executed.
MaxN == 6
\* Largest partition count of a collection that is only built.
MaxBuildN == 20
\* Largest integer passed as split_every.
MaxSplit == 5
\* Cap on the level counter d of _reduction (a loop that does not shrink k
\* would count for ever).
MaxDepth == 6
\* Largest number of builds whose names are compared.
MaxBuilds == 2
\* Largest number of bins of an axis (besides the 10 and 20 of the example).
MaxExtent == 3
\* Largest number of axes of a descriptor handed to to_dask_array.
MaxAxes == 2
\* Largest dimensionality D handed to bins_range_styles, and largest length
\* of its bins argument.
MaxD == 3
\* Largest length of the range argument of bins_range_styles.
MaxRangeLen == 4

Min(x, y) == IF x < y THEN x ELSE y

Max(x, y) == IF x > y THEN x ELSE y

\* ------------------------------------------------- arguments of a call
\* The split_every argument: None (unset), False, or an integer.
None == [tag |-> "None", val |-> 0]

False == [tag |-> "False", val |-> 0]

IntArg(v) == [tag |-> "int", val |-> v]

SplitEveryArgs == {None, False} \cup {IntArg(v) : v \in (0 - 1)..MaxSplit}

\* The *data arguments of factory: the identities of the dask collections
\* passed, the ndim of one block of data[0], whether data[0] is
\* dataframe-like, and data[0].npartitions.
DataArg(ids, ndim, df, n) ==
    [ids |-> ids, ndim |-> ndim, dataframe |-> df, npartitions |-> n]

DataArgs(n) ==
    {DataArg(<<1>>, 1, FALSE, n), DataArg(<<1>>, 2, FALSE, n),
     DataArg(<<1>>, 3, FALSE, n), DataArg(<<1>>, 2, TRUE, n),
     DataArg(<<1, 2>>, 1, FALSE, n)}

\* A reference histogram (descriptor): its axes and its storage kind.
Storage(s) ==
    CASE s = "Double" -> 1
      [] s = "Int64" -> 2
      [] s = "Weight" -> 3
      [] s = "AtomicInt64" -> 4

Descriptor(axes, storage) == [axes |-> axes, storage |-> storage]

\* histref=None; axes = 0 stands for axes=None, storage = 0 for storage=None.
NoHistref == Descriptor(0, 0)

\* ------------------------------------------------------------------ names
\* The literal prefixes of the names the builders format.
Prefix(s) ==
    CASE s = "hist-on-block" -> 1
      [] s = "hist-aggregate" -> 2
      [] s = "add" -> 3
      [] s = "mul" -> 4
      [] s = "div" -> 5
      [] s = "literal" -> 6
      [] s = "to-dask-array" -> 7

\* A task key: (name, idx), or the bare name (idx = -1).
Key(name, idx) == [name |-> name, idx |-> idx]

BareKey(name) == [name |-> name, idx |-> 0 - 1]

\* An argument of a task: a key of the graph, or a literal.
KeyArg(key) == [isKey |-> TRUE, key |-> key, lit |-> 0]

LitArg(v) == [isKey |-> FALSE, key |-> BareKey(<<>>), lit |-> v]

\* name = "hist-on-block-{}".format(tokenize(data, histref, weights));
\* weights = 0 stands for None.
BlockName(data, histref, weights) ==
    <<Prefix("hist-on-block"), Len(data.ids)>> \o data.ids \o
        <<histref.axes, histref.storage, weights>>

\* token = tokenize(ph, sum, split_every); fmt = f"hist-aggregate-{token}".
\* ph tokenizes as ph.name (__dask_tokenize__), sum is the same builtin in
\* every call.
AggregateNameNoSplit(phname, split_every) ==
    <<Prefix("hist-aggregate")>> \o phname

AggregateName(phname, split_every) ==
    <<Prefix("hist-aggregate")>> \o phname \o <<split_every>>

\* c = f"{fmt}{d}"
LevelName(fmt, d) == fmt \o <<d>>

\* ------------------------------------------------------------------ tasks
BlockTask(func, block) ==
    [func |-> func, args |-> <<>>, is_last |-> FALSE, block |-> block]

\* (empty_safe_aggregate, sum, [keys], is_last)
AggregateTask(keys, is_last) ==
    [func |-> "empty_safe_aggregate",
     args |-> [j \in DOMAIN keys |-> KeyArg(keys[j])],
     is_last |-> is_last, block |-> 0 - 1]

EmptyGraph == <<>>

\* HighLevelGraph.from_collections(name, layer, dependencies): the layer
\* together with the layers of the dependencies' graphs.
FromCollections(layer, depgraphs) ==
    [key \in DOMAIN layer \cup UNION {DOMAIN g : g \in depgraphs} |->
        IF key \in DOMAIN layer THEN layer[key]
        ELSE (CHOOSE g \in depgraphs : key \in DOMAIN g)[key]]

\* --------------------------------------------------- _reduced_histogram
\* The blocked function _reduced_histogram picks for the fill layer.
BlockedFunction(data, weights) ==
    IF Len(data.ids) = 1 /\ ~data.dataframe
    THEN (IF weights # 0 THEN "_blocked_sa_w" ELSE "_blocked_sa")
    ELSE IF Len(data.ids) = 1 /\ data.dataframe
    THEN (IF weights # 0 THEN "_blocked_df_w" ELSE "_blocked_df")
    ELSE (IF weights # 0 THEN "_blocked_ma_w" ELSE "_blocked_ma")

\* partitionwise(func, name, ...): one task (name, i) per partition.
Partitionwise(func, name, n) ==
    [key \in {Key(name, i) : i \in 0..(n - 1)} |-> BlockTask(func, key.idx)]

NoCollection ==
    [cls |-> "none", dask |-> EmptyGraph, name |-> <<>>, npartitions |-> 0,
     histref |-> NoHistref]

PartitionedHistogram(dsk, name, npartitions, histref) ==
    [cls |-> "PartitionedHistogram", dask |-> dsk, name |-> name,
     npartitions |-> npartitions, histref |-> histref]

AggHistogram(dsk, key, histref) ==
    [cls |-> "AggHistogram", dask |-> dsk, name |-> key,
     npartitions |-> 1, histref |-> histref]

\* _reduced_histogram up to the call of ph.reduced: no check of data.ndim.
ReducedHistogramPH(data, histref, weights) ==
    LET name == BlockName(data, histref, weights)
        g == Partitionwise(BlockedFunction(data, weights), name, data.npartitions)
    IN  PartitionedHistogram(FromCollections(g, {}), name, data.npartitions, histref)

\* factory: "Either histref or axes must be defined."
FactoryRaises(histref, axes) == histref = NoHistref /\ axes = 0

\* factory: the histref given, or bh.Histogram(*axes, storage=storage) with
\* storage defaulting to Double.
FactoryHistref(histref, axes, storage) ==
    IF histref # NoHistref THEN histref
    ELSE Descriptor(axes, IF storage = 0 THEN Storage("Double") ELSE storage)

\* ------------------------------------------------------------ _reduction
\* toolz.partition_all(n, range(len)): consecutive groups of n indices, the
\* last one shorter; no group at all when n <= 0 (zip_longest of nothing).
PartitionAllDropShort(n, len) ==
    IF n <= 0 \/ len = 0 THEN <<>>
    ELSE [g \in 1..(len \div n) |-> [j \in 1..n |-> (g - 1) * n + j - 1]]

PartitionAllOverlapping(n, len) ==
    IF n <= 0 \/ len = 0 THEN <<>>
    ELSE [g \in 1..((len + n - 1) \div n) |->
            [j \in 1..Min(n + 1, len - (g - 1) * n) |-> (g - 1) * n + j - 1]]

PartitionAll(n, len) ==
    IF n <= 0 \/ len = 0 THEN <<>>
    ELSE [g \in 1..((len + n - 1) \div n) |->
            [j \in 1..Min(n, len - (g - 1) * n) |-> (g - 1) * n + j - 1]]

\* split_every after the two normalising ifs.
NormalizedSplitEvery(arg, npartitions) ==
    IF arg.tag = "None" THEN 4
    ELSE IF arg.tag = "False" THEN npartitions
    ELSE arg.val

\* The locals of _reduction on entry to the while loop; i = -1: unbound.
ReductionEnter(ph, arg) ==
    LET se == NormalizedSplitEvery(arg, ph.npartitions)
    IN  [split_every |-> se, fmt |-> AggregateName(ph.name, se),
         k |-> ph.npartitions, b |-> ph.name, d |-> 0, i |-> 0 - 1,
         dsk |-> EmptyGraph, raised |-> FALSE]

WhileCondGE(r) == r.k >= r.split_every

WhileCond(r) == r.k > r.split_every

WhileBodyKeepsK(r) == [r EXCEPT !.d = r.d + 1]

\* One iteration of the while loop: the whole for loop, then k, b, d.
\* With no group the for loop binds no i and "k = i + 1" raises
\* UnboundLocalError when i was never bound.
WhileBody(r) ==
    LET c == LevelName(r.fmt, r.d)
        groups == PartitionAll(r.split_every, r.k)
        level == [key \in {Key(c, g - 1) : g \in DOMAIN groups} |->
                    AggregateTask([j \in DOMAIN groups[key.idx + 1] |->
                                      Key(r.b, groups[key.idx + 1][j])], FALSE)]
        i == IF Len(groups) > 0 THEN Len(groups) - 1 ELSE r.i
    IN  IF i < 0
        THEN [r EXCEPT !.dsk = level @@ r.dsk, !.raised = TRUE]
        ELSE [r EXCEPT !.dsk = level @@ r.dsk, !.i = i, !.k = i + 1,
                       !.b = c, !.d = r.d + 1]

\* After the loop: dsk[(fmt, 0)] = ...; dsk[fmt] = dsk.pop((fmt, 0)).
FinalGraphNoPop(r) ==
    (Key(r.fmt, 0) :> AggregateTask([j \in 1..r.k |-> Key(r.b, j - 1)], TRUE)) @@ r.dsk

FinalGraph(r) ==
    LET last == AggregateTask([j \in 1..r.k |-> Key(r.b, j - 1)], TRUE)
        with0 == (Key(r.fmt, 0) :> last) @@ r.dsk
    IN  [key \in (DOMAIN with0 \ {Key(r.fmt, 0)}) \cup {BareKey(r.fmt)} |->
            IF key = BareKey(r.fmt) THEN with0[Key(r.fmt, 0)] ELSE with0[key]]

\* g = HighLevelGraph.from_collections(fmt, dsk, dependencies=[ph]);
\* return AggHistogram(g, fmt, histref=ph.histref)
ReductionReturn(ph, r) ==
    AggHistogram(FromCollections(FinalGraph(r), {ph.dask}), r.fmt, ph.histref)



\* ------------------------------------------------- calls run to their end
Returns(v) == [status |-> "returned", error |-> "", value |-> v]

Raises(e) == [status |-> "raised", error |-> e, value |-> NoCollection]

RECURSIVE RunWhile(_)
RunWhile(r) ==
    IF WhileCond(r) /\ ~r.raised /\ r.d < MaxDepth THEN RunWhile(WhileBody(r)) ELSE r

\* _reduction(ph, split_every)
Reduction(ph, arg) ==
    LET r == RunWhile(ReductionEnter(ph, arg))
    IN  IF r.raised THEN Raises("UnboundLocalError")
        ELSE IF WhileCond(r) THEN Raises("no return")
        ELSE Returns(ReductionReturn(ph, r))

\* factory(*data, histref=, axes=, storage=, weights=, split_every=)
FactoryCall(data, histref, axes, storage, weights, arg) ==
    IF FactoryRaises(histref, axes) THEN Raises("ValueError")
    ELSE Reduction(ReducedHistogramPH(data, FactoryHistref(histref, axes, storage),
                                      weights), arg)

\* ---------------------------------------------------------------- BinaryOp
\* An operand of an operator: a collection or a plain number.
CollOperand(c) == [isColl |-> TRUE, coll |-> c, lit |-> 0]

Scalar(v) == [isColl |-> FALSE, coll |-> NoCollection, lit |-> v]

IsDaskCollection(x) == x.isColl

\* x.histref: the collections have the attribute, a number raises
\* AttributeError.
HasHistrefAlways(x) == TRUE

HasHistref(x) == x.isColl

\* What tokenize sees of an operand: the name of a collection
\* (__dask_tokenize__), the value of a number.
Tokenized(x) == IF x.isColl THEN x.coll.name ELSE <<Prefix("literal"), x.lit>>

\* name = "{}-hist-{}".format(self.__name__, tokenize(a, b))
OpName(opname, a, b) == <<Prefix(opname)>> \o Tokenized(a) \o Tokenized(b)

\* BinaryOp(func, name).__call__(a, b): no look at a.histref against
\* b.histref; AttributeError when neither operand has a histref.
BinaryOpCall(opname, a, b) ==
    LET name == OpName(opname, a, b)
        deps == {x.coll.dask : x \in {y \in {a, b} : IsDaskCollection(y)}}
        k1 == IF IsDaskCollection(a) THEN KeyArg(BareKey(a.coll.name)) ELSE LitArg(a.lit)
        k2 == IF IsDaskCollection(b) THEN KeyArg(BareKey(b.coll.name)) ELSE LitArg(b.lit)
        llg == (BareKey(name) :>
                  [func |-> opname, args |-> <<k1, k2>>, is_last |-> FALSE,
                   block |-> 0 - 1])
        g == FromCollections(llg, deps)
    IN  IF HasHistref(a) THEN Returns(AggHistogram(g, name, a.coll.histref))
        ELSE IF HasHistref(b) THEN Returns(AggHistogram(g, name, b.coll.histref))
        ELSE Raises("AttributeError")

\* The operator methods AggHistogram defines.
Methods ==
    {"__iadd__", "__add__", "__radd__", "__itruediv__", "__truediv__",
     "__idiv__", "__div__", "__imul__", "__mul__", "__rmul__"}

RECURSIVE MethodCall(_, _, _)
MethodCall(method, self, other) ==
    CASE method = "__iadd__" -> BinaryOpCall("add", self, other)
      [] method = "__add__" -> MethodCall("__iadd__", self, other)
      [] method = "__radd__" -> MethodCall("__iadd__", self, other)
      [] method = "__itruediv__" -> BinaryOpCall("div", self, other)
      [] method = "__truediv__" -> MethodCall("__itruediv__", self, other)
      [] method = "__idiv__" -> MethodCall("__itruediv__", self, other)
      [] method = "__div__" -> MethodCall("__idiv__", self, other)
      [] method = "__imul__" -> BinaryOpCall("mul", self, other)
      [] method = "__mul__" -> MethodCall("__imul__", self, other)
      [] method = "__rmul__" -> MethodCall("__mul__", self, other)

\* The method Python looks up on the left operand of x + y, x += y, ...
ForwardMethod(sym, inplace) ==
    CASE sym = "add" -> (IF inplace THEN "__iadd__" ELSE "__add__")
      [] sym = "mul" -> (IF inplace THEN "__imul__" ELSE "__mul__")
      [] sym = "div" -> (IF inplace THEN "__itruediv__" ELSE "__truediv__")

\* ... and on the right operand when the left one is a number.
ReflectedMethod(sym) ==
    CASE sym = "add" -> "__radd__"
      [] sym = "mul" -> "__rmul__"
      [] sym = "div" -> "__rtruediv__"

\* lhs sym rhs (or lhs sym= rhs), at least one operand an AggHistogram.
Evaluate(sym, inplace, lhs, rhs) ==
    IF lhs.isColl THEN MethodCall(ForwardMethod(sym, inplace), lhs, rhs)
    ELSE IF ReflectedMethod(sym) \in Methods
    THEN MethodCall(ReflectedMethod(sym), rhs, lhs)
    ELSE Raises("TypeError")

\* The collections alive after an operator method returned new: the method
\* hands back a new object and leaves self as it was.
OperatorUpdatesSelf(os, self, new) == [os EXCEPT ![self] = new]

OperatorLeaves(os, self, new) == os

\* -------------------------------------------------------------- execution
\* A result held for a key: a histogram (counts[p] = how many times the
\* data of partition p went into it), the int 0 (sum of nothing), or
\* dask.bag's no_result marker.
Hist(counts) == [tag |-> "hist", counts |-> counts]

ZeroCounts(n) == [p \in 0..(n - 1) |-> 0]

IntZero(n) == [tag |-> "int", counts |-> ZeroCounts(n)]

NoResult(n) == [tag |-> "no_result", counts |-> ZeroCounts(n)]

\* clone(histref).fill(block i of the data): the local accumulator.
Fill(block, n) == Hist([p \in 0..(n - 1) |-> IF p = block THEN 1 ELSE 0])

\* The blocked functions: _blocked_sa and _blocked_sa_w raise ValueError
\* unless sample.ndim is 1 or 2; the others fill without looking at ndim.
BlockedRaises(func, ndim) ==
    func \in {"_blocked_sa", "_blocked_sa_w"} /\ ndim \notin {1, 2}

RECURSIVE SumCounts(_, _)
SumCounts(parts, p) ==
    IF Len(parts) = 0 THEN 0 ELSE Head(parts).counts[p] + SumCounts(Tail(parts), p)

\* sum(parts): 0 + parts[0] + parts[1] + ...
Sum(parts, n) ==
    IF Len(parts) = 0 THEN IntZero(n)
    ELSE Hist([p \in 0..(n - 1) |-> SumCounts(parts, p)])

\* dask.bag.core.empty_safe_aggregate(sum, parts, is_last)
EmptySafeAggregate(parts, is_last, n) ==
    LET parts2 == SelectSeq(parts, LAMBDA v : v.tag # "no_result")
    IN  IF ~is_last /\ Len(parts2) = 0 THEN NoResult(n) ELSE Sum(parts2, n)

\* __dask_keys__ of a collection.
DaskKeys(coll) ==
    IF coll.cls = "PartitionedHistogram"
    THEN [j \in 1..coll.npartitions |-> Key(coll.name, j - 1)]
    ELSE <<BareKey(coll.name)>>

\* _finalize_partitioned_histogram(results): the results as they are.
FinalizeBySum(results) ==
    IF Len(results) = 0 THEN [shape |-> "list", items |-> results]
    ELSE [shape |-> "item", items |-> <<Sum(results, Len(results))>>]

FinalizePartitionedHistogram(results) == [shape |-> "list", items |-> results]

\* AggHistogram is a dask.bag Item: its postcompute takes results[0].
FinalizeItem(results) == [shape |-> "item", items |-> <<results[1]>>]

\* __dask_postcompute__ of a collection, applied to the results of its keys.
Postcompute(coll, results) ==
    IF coll.cls = "PartitionedHistogram"
    THEN FinalizePartitionedHistogram(results)
    ELSE FinalizeItem(results)

NoOutput == [shape |-> "none", items |-> <<>>]

\* ------------------------------------------------------------------ state
VARIABLES
    call,      \* the arguments of the factory call
    pc,        \* where the caller is
    ph,        \* the PartitionedHistogram built by _reduced_histogram
    red,       \* the locals of the running _reduction
    agg,       \* the AggHistogram returned
    target,    \* the collection being computed
    results,   \* the scheduler's results, by key
    out,       \* what compute() returned
    objs,      \* a session of operator calls: the collections alive
    ret,       \* the last call of the session and how it ended
    ran,       \* the keys of the tasks the last call of the session ran
    builds,    \* the builds whose names are compared
    arr,       \* a call of to_dask_array and what it returned
    styles,    \* a call of bins_range_styles and how it ended
    mem,       \* one execution of an operand together with an operator's
               \* result: the objects the scheduler holds for the keys
    hlg        \* a call of _reduction of hlg.py: its locals and what it returned

vars ==
    <<call, pc, ph, red, agg, target, results, out, objs, ret, ran, builds, arr,
      styles, mem, hlg>>

\* The state of factory, compute and the session of operator calls.
graphvars ==
    <<call, pc, ph, red, agg, target, results, out, objs, ret, ran, builds>>

\* The calls of the other entry points: a step of factory, of compute or of
\* the session leaves them alone.
purevars == <<arr, styles, mem, hlg>>

\* What a step of the session leaves alone.
redvars == <<call, pc, ph, red, agg, target, results, out, purevars>>

\* What a step of factory or of compute leaves alone.
sessionvars == <<objs, ret, ran, builds, purevars>>

NoArrayCall == [status |-> "none"]

\* No call of the other entry points was made.
NoStylesCall == [status |-> "none"]

NoExecution == [status |-> "none"]

NoHlgCall == [pc |-> "none"]

NoPureCalls ==
    /\ arr = NoArrayCall
    /\ styles = NoStylesCall
    /\ mem = NoExecution
    /\ hlg = NoHlgCall

\* An operand of a call of the session: the handle of a collection of objs,
\* or a number.
HandleRef(h) == [isColl |-> TRUE, h |-> h, lit |-> 0]

ScalarRef(v) == [isColl |-> FALSE, h |-> 0, lit |-> v]

NoCall ==
    [kind |-> "none", sym |-> "", inplace |-> FALSE, a |-> ScalarRef(0),
     b |-> ScalarRef(0), status |-> "", error |-> "", value |-> NoCollection]

NoLocals ==
    [split_every |-> 0, fmt |-> <<>>, k |-> 0, b |-> <<>>, d |-> 0, i |-> 0 - 1,
     dsk |-> EmptyGraph, raised |-> FALSE]

Calls(maxn) ==
    {[data |-> data, histref |-> hr.histref, axes |-> hr.axes, storage |-> 0,
      weights |-> w, split_every |-> se] :
        hr \in {[histref |-> Descriptor(1, Storage("Weight")), axes |-> 0],
                [histref |-> NoHistref, axes |-> 1],
                [histref |-> NoHistref, axes |-> 0]},
        data \in UNION {DataArgs(n) : n \in 0..maxn},
        w \in {0, 1}, se \in SplitEveryArgs}

InitWith(maxn) ==
    /\ call \in Calls(maxn)
    /\ pc = "factory"
    /\ ph = NoCollection
    /\ red = NoLocals
    /\ agg = NoCollection
    /\ target = NoCollection
    /\ results = EmptyGraph
    /\ out = NoOutput
    /\ objs = <<>>
    /\ ret = NoCall
    /\ ran = {}
    /\ builds = {}
    /\ NoPureCalls

Init == InitWith(MaxN)

InitBuild == InitWith(MaxBuildN)

\* factory: ValueError without histref and axes; else _reduced_histogram ->
\* ph.reduced -> entry of _reduction, up to the while loop.
Factory ==
    /\ pc = "factory"
    /\ IF FactoryRaises(call.histref, call.axes)
       THEN /\ pc' = "raised"
            /\ UNCHANGED <<ph, red>>
       ELSE /\ ph' = ReducedHistogramPH(call.data,
                         FactoryHistref(call.histref, call.axes, call.storage),
                         call.weights)
            /\ red' = ReductionEnter(ph', call.split_every)
            /\ pc' = "while"
    /\ UNCHANGED <<call, agg, target, results, out>>
    /\ UNCHANGED sessionvars

\* while k > split_every: one iteration.
WhileIteration ==
    /\ pc = "while"
    /\ WhileCond(red)
    /\ red.d < MaxDepth
    /\ red' = WhileBody(red)
    /\ pc' = IF red'.raised THEN "raised" ELSE "while"
    /\ UNCHANGED <<call, ph, agg, target, results, out>>
    /\ UNCHANGED sessionvars

\* The loop is left: the last task, the graph and the AggHistogram.
WhileExit ==
    /\ pc = "while"
    /\ ~WhileCond(red)
    /\ agg' = ReductionReturn(ph, red)
    /\ red' = [red EXCEPT !.dsk = FinalGraph(red)]
    /\ pc' = "built"
    /\ UNCHANGED <<call, ph, target, results, out>>
    /\ UNCHANGED sessionvars

\* compute() of the aggregated or of the partitioned collection.
Compute ==
    /\ pc = "built"
    /\ target' \in {agg, ph}
    /\ pc' = "running"
    /\ UNCHANGED <<call, ph, red, agg, results, out>>
    /\ UNCHANGED sessionvars

Ready(key) ==
    /\ key \in DOMAIN target.dask
    /\ key \notin DOMAIN results
    /\ \A j \in DOMAIN target.dask[key].args :
          target.dask[key].args[j].isKey =>
              target.dask[key].args[j].key \in DOMAIN results

\* The value a ready task returns.
TaskValue(task, n) ==
    IF task.func = "empty_safe_aggregate"
    THEN EmptySafeAggregate([j \in DOMAIN task.args |-> results[task.args[j].key]],
                            task.is_last, n)
    ELSE Fill(task.block, n)

\* The scheduler runs one task all of whose argument keys have a result.
RunTask ==
    /\ pc = "running"
    /\ \E key \in DOMAIN target.dask :
          /\ Ready(key)
          /\ LET task == target.dask[key]
             IN  IF BlockedRaises(task.func, call.data.ndim)
                 THEN /\ pc' = "failed"
                      /\ UNCHANGED results
                 ELSE /\ pc' = "running"
                      /\ results' = (key :> TaskValue(task, ph.npartitions)) @@ results
    /\ UNCHANGED <<call, ph, red, agg, target, out>>
    /\ UNCHANGED sessionvars

\* Every key of the collection has its result: postcompute and return.
Finish ==
    /\ pc = "running"
    /\ \A j \in DOMAIN DaskKeys(target) : DaskKeys(target)[j] \in DOMAIN results
    /\ out' = Postcompute(target, [j \in DOMAIN DaskKeys(target) |->
                                      results[DaskKeys(target)[j]]])
    /\ pc' = "computed"
    /\ UNCHANGED <<call, ph, red, agg, target, results>>
    /\ UNCHANGED sessionvars

NextBuild == Factory \/ WhileIteration \/ WhileExit

Next == Factory \/ WhileIteration \/ WhileExit \/ Compute \/ RunTask \/ Finish

Spec == Init /\ [][Next]_vars

SpecBuild == InitBuild /\ [][NextBuild]_vars

\* ------------------------------------------- a session of operator calls
\* No factory call is under way.
IdleCall ==
    [data |-> DataArg(<<1>>, 1, FALSE, 0), histref |-> NoHistref, axes |-> 0,
     storage |-> 0, weights |-> 0, split_every |-> None]

Idle ==
    /\ call = IdleCall
    /\ pc = "idle"
    /\ ph = NoCollection
    /\ red = NoLocals
    /\ agg = NoCollection
    /\ target = NoCollection
    /\ results = EmptyGraph
    /\ out = NoOutput

\* The numbers used as operands.
Scalars == {2}

\* The descriptors of the second collection of the session: that of the
\* first, other axes, another storage kind.
SessionHistrefs ==
    {Descriptor(1, Storage("Double")), Descriptor(2, Storage("Double")),
     Descriptor(1, Storage("Int64"))}

\* The session holds two collections: a, built by factory, and b, built by
\* factory with one of the descriptors above or by an operator from a.
SessionA ==
    FactoryCall(DataArg(<<1>>, 1, FALSE, 1), Descriptor(1, Storage("Double")),
                0, 0, 0, None).value

SessionBs ==
    {FactoryCall(DataArg(<<2>>, 1, FALSE, 2), hb, 0, 0, 0, None).value :
        hb \in SessionHistrefs}
    \cup {BinaryOpCall("mul", CollOperand(SessionA), Scalar(2)).value}

InitOps ==
    /\ Idle
    /\ \E b \in SessionBs : objs = <<SessionA, b>>
    /\ ret = NoCall
    /\ ran = {}
    /\ builds = {}
    /\ NoPureCalls

Refs == {HandleRef(h) : h \in DOMAIN objs} \cup {ScalarRef(v) : v \in Scalars}

Operand(ref) == IF ref.isColl THEN CollOperand(objs[ref.h]) ELSE Scalar(ref.lit)

Ended(kind, sym, inplace, a, b, r) ==
    [kind |-> kind, sym |-> sym, inplace |-> inplace, a |-> a, b |-> b,
     status |-> r.status, error |-> r.error, value |-> r.value]

\* a sym b or a sym= b with at least one AggHistogram among a, b: the call
\* returns a collection or raises; building the graph runs no task.
Operator(sym, inplace, a, b) ==
    /\ a.isColl \/ b.isColl
    /\ LET r == Evaluate(sym, inplace, Operand(a), Operand(b))
           self == IF a.isColl THEN a.h ELSE b.h
       IN  /\ ret' = Ended("operator", sym, inplace, a, b, r)
           /\ objs' = IF r.status = "returned"
                      THEN OperatorLeaves(objs, self, r.value) ELSE objs
    /\ ran' = {}
    /\ UNCHANGED builds
    /\ UNCHANGED redvars

\* _iadd(a, b), _imul(a, b), _itruediv(a, b) called as functions.
CallBinaryOp(opname, a, b) ==
    /\ ret' = Ended("BinaryOp", opname, FALSE, a, b,
                    BinaryOpCall(opname, Operand(a), Operand(b)))
    /\ ran' = {}
    /\ UNCHANGED <<objs, builds>>
    /\ UNCHANGED redvars

\* compute() of one collection of the session: the tasks of its graph run.
ComputeObj(h) ==
    /\ ret' = Ended("compute", "", FALSE, HandleRef(h), HandleRef(h), Returns(NoCollection))
    /\ ran' = DOMAIN objs[h].dask
    /\ UNCHANGED <<objs, builds>>
    /\ UNCHANGED redvars

OperatorStep ==
    \E sym \in {"add", "mul", "div"}, inplace \in BOOLEAN, a \in Refs, b \in Refs :
        Operator(sym, inplace, a, b)

BinaryOpStep ==
    \E opname \in {"add", "mul", "div"}, a \in Refs, b \in Refs :
        CallBinaryOp(opname, a, b)

ComputeStep == \E h \in DOMAIN objs : ComputeObj(h)

NextOps == OperatorStep \/ BinaryOpStep \/ ComputeStep

SpecOps == InitOps /\ [][NextOps]_vars

\* ------------------------------------------------------ builds and names
\* The inputs of a build: of factory (data identity, descriptor, weights,
\* fan-in bound) or of a BinaryOp (operator, identity of each operand).
FactoryOrigin(data, histref, weights, arg) ==
    [kind |-> "factory", op |-> "sum", data |-> data.ids, histref |-> histref,
     weights |-> weights,
     fanin |-> NormalizedSplitEvery(arg, data.npartitions), a |-> <<>>, b |-> <<>>]

OpOrigin(opname, a, b) ==
    [kind |-> "BinaryOp", op |-> opname, data |-> <<>>, histref |-> NoHistref,
     weights |-> 0, fanin |-> 0, a |-> Tokenized(a), b |-> Tokenized(b)]

\* The collections with a name of their own that are passed as data.
NamedData ==
    {DataArg(<<1>>, 1, FALSE, 3), DataArg(<<2>>, 1, FALSE, 3),
     DataArg(<<1, 2>>, 1, FALSE, 3)}

NamedSplits == {None, False, IntArg(2), IntArg(3), IntArg(4)}

InitNames ==
    /\ Idle
    /\ objs = <<>>
    /\ ret = NoCall
    /\ ran = {}
    /\ builds = {}
    /\ NoPureCalls

BuildFactory(data, histref, weights, arg) ==
    /\ Cardinality(builds) < MaxBuilds
    /\ LET r == FactoryCall(data, histref, 0, 0, weights, arg)
       IN  /\ r.status = "returned"
           /\ builds' = builds \cup
                 {[origin |-> FactoryOrigin(data, histref, weights, arg),
                   coll |-> r.value]}
    /\ UNCHANGED <<objs, ret, ran>>
    /\ UNCHANGED redvars

BuildOp(opname, a, b) ==
    /\ Cardinality(builds) < MaxBuilds
    /\ a.isColl \/ b.isColl
    /\ LET r == BinaryOpCall(opname, a, b)
       IN  /\ r.status = "returned"
           /\ builds' = builds \cup
                 {[origin |-> OpOrigin(opname, a, b), coll |-> r.value]}
    /\ UNCHANGED <<objs, ret, ran>>
    /\ UNCHANGED redvars

BuildFactoryStep ==
    \E data \in NamedData, histref \in SessionHistrefs, weights \in {0, 1},
       arg \in NamedSplits :
        BuildFactory(data, histref, weights, arg)

BuildOpStep ==
    \E opname \in {"add", "mul", "div"} :
        \E a, b \in {CollOperand(x.coll) : x \in builds} \cup {Scalar(2), Scalar(3)} :
            BuildOp(opname, a, b)

NextNames == BuildFactoryStep \/ BuildOpStep

SpecNames == InitNames /\ [][NextNames]_vars

\* ------------------------------- the objects held for the keys of a graph
\* The fill tasks of a graph.
Leaves(g) == {key \in DOMAIN g : g[key].block >= 0}

\* The value of a histogram object: sum over the fill tasks of
\* num[leaf] / den times what the task filled, plus off / den in every bin.
HistValue(num, off, den) == [tag |-> "hist", num |-> num, off |-> off, den |-> den]

\* A plain number, and the int 0 that sum() of nothing returns.
NumberValue(v) == [tag |-> "number", val |-> v]

NoResultValue == [tag |-> "no_result"]

\* clone(histref).fill(...): a new histogram holding the fill of one block.
FillValue(g, leaf) ==
    HistValue([key \in Leaves(g) |-> IF key = leaf THEN 1 ELSE 0], 0, 1)

\* x + y, x * y and x / y on the values; y is a histogram (for +) or a number.
AddValue(x, y) ==
    IF y.tag = "hist"
    THEN HistValue([key \in DOMAIN x.num |-> x.num[key] * y.den + y.num[key] * x.den],
                   x.off * y.den + y.off * x.den, x.den * y.den)
    ELSE HistValue(x.num, x.off + y.val * x.den, x.den)

MulValue(x, y) ==
    HistValue([key \in DOMAIN x.num |-> x.num[key] * y.val], x.off * y.val, x.den)

DivValue(x, y) == HistValue(x.num, x.off, x.den * y.val)

\* operator.iadd(x, y), operator.imul(x, y), operator.itruediv(x, y) with x a
\* boost_histogram.Histogram: x += y (x *= y, x /= y) updates the object x
\* in place and returns that same object.
InplaceValue(func, x, y) ==
    CASE func = "add" -> AddValue(x, y)
      [] func = "mul" -> MulValue(x, y)
      [] func = "div" -> DivValue(x, y)

RECURSIVE SumValues(_)
SumValues(parts) ==
    IF Len(parts) = 1 THEN AddValue(Head(parts), NumberValue(0))
    ELSE AddValue(SumValues(SubSeq(parts, 1, Len(parts) - 1)), parts[Len(parts)])

\* empty_safe_aggregate(sum, parts, is_last): 0 + parts[0] + ... builds new
\* histograms (Histogram.__add__ copies), its arguments stay as they are.
AggregateValue(parts, is_last) ==
    LET parts2 == SelectSeq(parts, LAMBDA v : v.tag # "no_result")
    IN  IF Len(parts2) = 0
        THEN (IF is_last THEN NumberValue(0) ELSE NoResultValue)
        ELSE SumValues(parts2)

\* The expressions whose result is executed together with an operand:
\* a + b over collections or a number, a * s, a / s, and the reflected
\* s + a, s * a.
Expressions ==
    {e \in [sym : {"add", "mul", "div"}, inplace : BOOLEAN, a : Refs, b : Refs] :
        /\ e.a.isColl \/ e.b.isColl
        /\ e.sym = "mul" => (~e.a.isColl \/ ~e.b.isColl)
        /\ e.sym = "div" => (e.a.isColl /\ ~e.b.isColl)}

InitTogether ==
    /\ Idle
    /\ \E b \in SessionBs : objs = <<SessionA, b>>
    /\ ret = NoCall
    /\ ran = {}
    /\ builds = {}
    /\ arr = NoArrayCall
    /\ styles = NoStylesCall
    /\ hlg = NoHlgCall
    /\ mem = [status |-> "idle"]

\* c = a sym b; dask.compute(x, c) with x one of the operands of c: one
\* execution of the graph of c, asked for the keys of x and of c.
ComputeTogether(e, h) ==
    /\ mem.status = "idle"
    /\ HandleRef(h) \in {e.a, e.b}
    /\ LET r == Evaluate(e.sym, e.inplace, Operand(e.a), Operand(e.b))
       IN  /\ r.status = "returned"
           /\ mem' = [status |-> "running", expr |-> e, operand |-> objs[h],
                      c |-> r.value, held |-> <<>>, heap |-> <<>>, fresh |-> <<>>]
    /\ UNCHANGED graphvars
    /\ UNCHANGED <<arr, styles, hlg>>

\* A task of the graph all of whose argument keys hold an object.
ReadyTogether(key) ==
    /\ key \in DOMAIN mem.c.dask
    /\ key \notin DOMAIN mem.held
    /\ \A j \in DOMAIN mem.c.dask[key].args :
          mem.c.dask[key].args[j].isKey =>
              mem.c.dask[key].args[j].key \in DOMAIN mem.held

\* The object an argument of a task stands for.
ArgValue(arg) ==
    IF arg.isKey THEN mem.heap[mem.held[arg.key]] ELSE NumberValue(arg.lit)

\* A fill task or a combine task returns a new object.
RunNewObject(key) ==
    /\ mem.status = "running"
    /\ ReadyTogether(key)
    /\ mem.c.dask[key].func \notin {"add", "mul", "div"}
    /\ LET task == mem.c.dask[key]
           v == IF task.func = "empty_safe_aggregate"
                THEN AggregateValue([j \in DOMAIN task.args |-> ArgValue(task.args[j])],
                                    task.is_last)
                ELSE FillValue(mem.c.dask, key)
       IN  mem' = [mem EXCEPT !.heap = Append(mem.heap, v),
                              !.held = (key :> (Len(mem.heap) + 1)) @@ mem.held,
                              !.fresh = (key :> v) @@ mem.fresh]
    /\ UNCHANGED graphvars
    /\ UNCHANGED <<arr, styles, hlg>>

\* An operator task (operator.iadd, imul, itruediv, k1, k2): the object held
\* for k1 is updated in place and is the object held for the task's key too.
RunOperatorTask(key) ==
    /\ mem.status = "running"
    /\ ReadyTogether(key)
    /\ mem.c.dask[key].func \in {"add", "mul", "div"}
    /\ LET task == mem.c.dask[key]
           address == mem.held[task.args[1].key]
           v == InplaceValue(task.func, ArgValue(task.args[1]), ArgValue(task.args[2]))
       IN  mem' = [mem EXCEPT !.heap = [mem.heap EXCEPT ![address] = v],
                              !.held = (key :> address) @@ mem.held,
                              !.fresh = (key :> v) @@ mem.fresh]
    /\ UNCHANGED graphvars
    /\ UNCHANGED <<arr, styles, hlg>>

\* Both keys asked for hold an object: compute returns the two objects.
ReturnTogether ==
    /\ mem.status = "running"
    /\ BareKey(mem.operand.name) \in DOMAIN mem.held
    /\ BareKey(mem.c.name) \in DOMAIN mem.held
    /\ mem' = [status |-> "returned", expr |-> mem.expr, operand |-> mem.operand,
               c |-> mem.c, held |-> mem.held, heap |-> mem.heap,
               fresh |-> mem.fresh,
               results |-> <<mem.heap[mem.held[BareKey(mem.operand.name)]],
                             mem.heap[mem.held[BareKey(mem.c.name)]]>>]
    /\ UNCHANGED graphvars
    /\ UNCHANGED <<arr, styles, hlg>>

ComputeTogetherStep == \E e \in Expressions, h \in DOMAIN objs : ComputeTogether(e, h)

\* The scheduler runs one ready task.
RunNewObjectStep ==
    /\ mem.status = "running"
    /\ \E key \in DOMAIN mem.c.dask : RunNewObject(key)

RunOperatorTaskStep ==
    /\ mem.status = "running"
    /\ \E key \in DOMAIN mem.c.dask : RunOperatorTask(key)

NextTogether ==
    ComputeTogetherStep \/ RunNewObjectStep \/ RunOperatorTaskStep \/ ReturnTogether

SpecTogether == InitTogether /\ [][NextTogether]_vars

\* ------------------------------------------------- _reduction of hlg.py
\* hlg.PartitionedHistogram(dsk, name, npartitions) and
\* hlg.AggHistogram(dsk, key): no reference histogram.
HlgPartitionedHistogram(dsk, name, npartitions) ==
    [cls |-> "PartitionedHistogram", dask |-> dsk, name |-> name,
     npartitions |-> npartitions]

HlgAggHistogram(dsk, key) == [cls |-> "AggHistogram", dask |-> dsk, name |-> key]

HlgNoCollection == [cls |-> "none", dask |-> EmptyGraph, name |-> <<>>]

\* The locals of hlg._reduction on entry to its while loop; i = -1: unbound.
HlgReductionEnter(partedhist, arg) ==
    LET se == IF arg.tag = "None" THEN 4
              ELSE IF arg.tag = "False" THEN partedhist.npartitions
              ELSE arg.val
    IN  [split_every |-> se,
         fmt |-> <<Prefix("hist-aggregate")>> \o partedhist.name \o <<se>>,
         k |-> partedhist.npartitions, b |-> partedhist.name, d |-> 0,
         i |-> 0 - 1, dsk |-> EmptyGraph, raised |-> FALSE]

HlgWhileCond(r) == r.k > r.split_every

\* One iteration of the while loop of hlg._reduction.
HlgWhileBody(r) ==
    LET c == LevelName(r.fmt, r.d)
        groups == PartitionAll(r.split_every, r.k)
        level == [key \in {Key(c, g - 1) : g \in DOMAIN groups} |->
                    AggregateTask([j \in DOMAIN groups[key.idx + 1] |->
                                      Key(r.b, groups[key.idx + 1][j])], FALSE)]
        i == IF Len(groups) > 0 THEN Len(groups) - 1 ELSE r.i
    IN  IF i < 0
        THEN [r EXCEPT !.dsk = level @@ r.dsk, !.raised = TRUE]
        ELSE [r EXCEPT !.dsk = level @@ r.dsk, !.i = i, !.k = i + 1,
                       !.b = c, !.d = r.d + 1]

\* dsk[(fmt, 0)] = ...; g = from_collections(fmt, dsk, [partedhist]);
\* dsk[fmt] = dsk.pop((fmt, 0)); return AggHistogram(g, fmt): the pop comes
\* after the graph was made from dsk, which is the same dict object.
HlgReductionReturn(partedhist, r) ==
    LET last == AggregateTask([j \in 1..r.k |-> Key(r.b, j - 1)], TRUE)
        with0 == (Key(r.fmt, 0) :> last) @@ r.dsk
        popped == [key \in (DOMAIN with0 \ {Key(r.fmt, 0)}) \cup {BareKey(r.fmt)} |->
                      IF key = BareKey(r.fmt) THEN last ELSE with0[key]]
    IN  HlgAggHistogram(FromCollections(popped, {partedhist.dask}), r.fmt)

\* The calls whose termination is looked at: one array of n blocks, every
\* split_every.
TermCalls ==
    {[data |-> DataArg(<<1>>, 1, FALSE, n),
      histref |-> Descriptor(1, Storage("Double")), axes |-> 0, storage |-> 0,
      weights |-> 0, split_every |-> se] :
        n \in 0..MaxBuildN, se \in SplitEveryArgs}

\* factory of core.py and _reduction of hlg.py are called with the same
\* partition count and the same split_every.
InitTerm ==
    /\ call \in TermCalls
    /\ pc = "factory"
    /\ ph = NoCollection
    /\ red = NoLocals
    /\ agg = NoCollection
    /\ target = NoCollection
    /\ results = EmptyGraph
    /\ out = NoOutput
    /\ objs = <<>>
    /\ ret = NoCall
    /\ ran = {}
    /\ builds = {}
    /\ arr = NoArrayCall
    /\ styles = NoStylesCall
    /\ mem = NoExecution
    /\ hlg = [pc |-> "call",
              partedhist |-> HlgPartitionedHistogram(
                  Partitionwise("_blocked_sa", <<Prefix("hist-on-block"), 1>>,
                                call.data.npartitions),
                  <<Prefix("hist-on-block"), 1>>, call.data.npartitions),
              r |-> NoLocals, agg |-> HlgNoCollection]

\* hlg._reduction(partedhist, split_every) up to its while loop.
HlgReduction ==
    /\ hlg.pc = "call"
    /\ hlg' = [hlg EXCEPT !.pc = "while",
                          !.r = HlgReductionEnter(hlg.partedhist, call.split_every)]
    /\ UNCHANGED graphvars
    /\ UNCHANGED <<arr, styles, mem>>

HlgWhileIteration ==
    /\ hlg.pc = "while"
    /\ HlgWhileCond(hlg.r)
    /\ hlg.r.d < MaxDepth
    /\ LET r == HlgWhileBody(hlg.r)
       IN  hlg' = [hlg EXCEPT !.r = r,
                              !.pc = IF r.raised THEN "raised" ELSE "while"]
    /\ UNCHANGED graphvars
    /\ UNCHANGED <<arr, styles, mem>>

HlgWhileExit ==
    /\ hlg.pc = "while"
    /\ ~HlgWhileCond(hlg.r)
    /\ hlg' = [hlg EXCEPT !.pc = "built",
                          !.agg = HlgReductionReturn(hlg.partedhist, hlg.r)]
    /\ UNCHANGED graphvars
    /\ UNCHANGED <<arr, styles, mem>>

NextHlg == HlgReduction \/ HlgWhileIteration \/ HlgWhileExit

NextTerm ==
    Factory \/ WhileIteration \/ WhileExit
        \/ HlgReduction \/ HlgWhileIteration \/ HlgWhileExit

\* Each of the two calls is a running function: it takes its next step.
SpecTerm ==
    InitTerm /\ [][NextTerm]_vars /\ WF_vars(NextBuild) /\ WF_vars(NextHlg)

\* ---------------------------------------------------------- to_dask_array
\* One axis of a reference histogram: its number of bins (extent) and
\* whether it has an underflow and an overflow bin.
Axis(extent, underflow, overflow) ==
    [extent |-> extent, underflow |-> underflow, overflow |-> overflow]

\* histref.ndim
HistNdim(histref) == Len(histref.axes)

\* histref.shape: the number of bins of each axis, flow bins not counted.
HistShape(histref) == [j \in DOMAIN histref.axes |-> histref.axes[j].extent]

\* ax.edges: the extent + 1 boundaries of the bins of the axis.
AxisEdges(ax) == [j \in 1..(ax.extent + 1) |-> j - 1]

\* shape = agghist.histref.shape; if flow: tuple(i + 2 for i in shape)
ArrayShapeFlowByOne(histref, flow) ==
    IF flow THEN [j \in DOMAIN histref.axes |-> HistShape(histref)[j] + 1]
    ELSE HistShape(histref)

ArrayShape(histref, flow) ==
    IF flow THEN [j \in DOMAIN histref.axes |-> HistShape(histref)[j] + 2]
    ELSE HistShape(histref)

\* dt = int if the storage is Int64 or AtomicInt64 else float
ArrayDtype(histref) ==
    IF histref.storage \in {Storage("Int64"), Storage("AtomicInt64")}
    THEN "int" ELSE "float"

\* The key (name, *zeros): the name followed by ndim zeros.
ArrayKey(name, ndim) == [name |-> name, idx |-> 0, zeros |-> ndim]

\* da.Array(graph, name=, shape=, chunks=shape, dtype=)
Array(graph, name, shape, dtype) ==
    [cls |-> "Array", dask |-> graph, name |-> name, shape |-> shape,
     chunks |-> shape, dtype |-> dtype]

\* da.asarray(ax.edges): a one-dimensional array of the boundaries.
EdgeArray(ax) ==
    [cls |-> "Array", values |-> AxisEdges(ax), shape |-> <<Len(AxisEdges(ax))>>]

\* to_dask_array(agghist, flow, dd): (c, [edges]) when dd, (c, *edges)
\* otherwise; the edges never hold flow boundaries.
ToDaskArray(agghist, flow, dd) ==
    LET name == <<Prefix("to-dask-array")>> \o agghist.name
        dsk == (ArrayKey(name, HistNdim(agghist.histref)) :>
                  [func |-> "to_numpy",
                   args |-> <<KeyArg(BareKey(agghist.name)),
                              LitArg(IF flow THEN 1 ELSE 0)>>,
                   is_last |-> FALSE, block |-> 0 - 1])
        graph == FromCollections(dsk, {agghist.dask})
        c == Array(graph, name, ArrayShape(agghist.histref, flow),
                   ArrayDtype(agghist.histref))
        edges == [j \in DOMAIN agghist.histref.axes |->
                     EdgeArray(agghist.histref.axes[j])]
    IN  [length |-> IF dd THEN 2 ELSE 1 + Len(edges), content |-> c,
         edges |-> edges, edgesInList |-> dd]

\* x.to_numpy(flow=f)[0], the value of the array's one task: the counts with
\* the flow bins the axes have when f is set.
ToNumpyShape(histref, flow) ==
    [j \in DOMAIN histref.axes |->
        histref.axes[j].extent
          + (IF flow /\ histref.axes[j].underflow THEN 1 ELSE 0)
          + (IF flow /\ histref.axes[j].overflow THEN 1 ELSE 0)]

Extents == (1..MaxExtent) \cup {10, 20}

AxisChoices ==
    {Axis(e, u, o) : e \in Extents, u \in BOOLEAN, o \in BOOLEAN}

AxesChoices ==
    UNION {[1..m -> AxisChoices] : m \in 1..MaxAxes}

\* The aggregated collections handed to to_dask_array: the graph and key of
\* a built collection, with a reference histogram of the given axes.
ArrayHists ==
    {AggHistogram(SessionA.dask, SessionA.name, Descriptor(axes, Storage(st))) :
        axes \in AxesChoices, st \in {"Double", "Int64", "AtomicInt64"}}

InitArray ==
    /\ Idle
    /\ objs = <<>>
    /\ ret = NoCall
    /\ ran = {}
    /\ builds = {}
    /\ styles = NoStylesCall
    /\ mem = NoExecution
    /\ hlg = NoHlgCall
    /\ \E agghist \in ArrayHists, flow \in BOOLEAN, dd \in BOOLEAN :
          arr = [status |-> "called", agghist |-> agghist, flow |-> flow, dd |-> dd]

\* agghist.to_dask_array(flow=, dd=)
CallToDaskArray ==
    /\ arr.status = "called"
    /\ arr' = [status |-> "returned", agghist |-> arr.agghist, flow |-> arr.flow,
               dd |-> arr.dd,
               value |-> ToDaskArray(arr.agghist, arr.flow, arr.dd)]
    /\ UNCHANGED graphvars
    /\ UNCHANGED <<styles, mem, hlg>>

\* compute() of the content array: its one task runs.
ComputeContent ==
    /\ arr.status = "returned"
    /\ arr' = [status |-> "computed", agghist |-> arr.agghist, flow |-> arr.flow,
               dd |-> arr.dd, value |-> arr.value,
               chunk |-> ToNumpyShape(arr.agghist.histref, arr.flow)]
    /\ UNCHANGED graphvars
    /\ UNCHANGED <<styles, mem, hlg>>

NextArray == CallToDaskArray \/ ComputeContent

SpecArray == InitArray /\ [][NextArray]_vars

\* ------------------------------------------------------ bins_range_styles
\* The bins argument: an int, a tuple or list of ints, a tuple or list
\* that holds something other than ints (sequences), a numpy array of some
\* ndim, or anything else.  len is its length (0 for an int).
Bins(kind, len, ndim) == [kind |-> kind, len |-> len, ndim |-> ndim]

BinsArgs ==
    {Bins("int", 0, 0), Bins("other", 0, 0)}
    \cup {Bins("ints", l, 0) : l \in 0..MaxD}
    \cup {Bins("sequences", l, 0) : l \in 1..MaxD}
    \cup {Bins("ndarray", 0, nd) : nd \in 1..2}

\* An entry of the range argument: a number, or a sequence of some length.
Number == [isNumber |-> TRUE, len |-> 0]

Tuple(len) == [isNumber |-> FALSE, len |-> len]

\* The range argument: None, or a sequence of entries.
RangeNone == [isNone |-> TRUE, entries |-> <<>>]

Range(entries) == [isNone |-> FALSE, entries |-> entries]

RangeArgs ==
    {RangeNone} \cup
    {Range(es) : es \in UNION {[1..l -> {Number, Tuple(1), Tuple(2)}] :
                                  l \in 0..MaxRangeLen}}

StylesResult(status, error, b_style, r_style) ==
    [status |-> status, error |-> error, b_style |-> b_style, r_style |-> r_style]

\* bins_style(D, bins)
BinsStyle(D, bins) ==
    IF bins.kind = "int" THEN StylesResult("returned", "", "SingleScalar", "")
    ELSE IF bins.kind = "ints"
    THEN (IF bins.len # D /\ D # 1 THEN StylesResult("raised", "ValueError", "", "")
          ELSE IF D = 1 THEN StylesResult("returned", "", "SingleSequence", "")
          ELSE StylesResult("returned", "", "MultiScalar", ""))
    ELSE IF bins.kind = "sequences"
    THEN (IF bins.len # D THEN StylesResult("raised", "ValueError", "", "")
          ELSE StylesResult("returned", "", "MultiSequence", ""))
    ELSE IF bins.kind = "ndarray" /\ bins.ndim = 1
    THEN StylesResult("returned", "", "SingleSequence", "")
    ELSE StylesResult("raised", "ValueError", "", "")

\* bins_range_styles(D, bins, range).  In the MultiScalar branch the
\* statement under "if len(range) != D:" builds a ValueError and drops it:
\* nothing is raised there, and the for loop over the entries follows
\* (len(entry) of a number is a TypeError).
BinsRangeStyles(D, bins, range) ==
    LET b == BinsStyle(D, bins)
        es == range.entries
    IN  IF b.status = "raised" THEN b
        ELSE IF range.isNone
        THEN (IF b.b_style \in {"SingleSequence", "MultiSequence"}
              THEN StylesResult("returned", "", b.b_style, "IsNone")
              ELSE StylesResult("raised", "ValueError", "", ""))
        ELSE IF b.b_style = "SingleScalar"
        THEN (IF Len(es) # 2 THEN StylesResult("raised", "ValueError", "", "")
              ELSE IF ~es[1].isNumber \/ ~es[2].isNumber
              THEN StylesResult("raised", "ValueError", "", "")
              ELSE StylesResult("returned", "", b.b_style, "SinglePair"))
        ELSE IF b.b_style = "MultiScalar"
        THEN (IF \E j \in DOMAIN es :
                        /\ es[j].isNumber
                        /\ \A l \in 1..(j - 1) : ~es[l].isNumber /\ es[l].len = 2
              THEN StylesResult("raised", "TypeError", "", "")
              ELSE IF \E j \in DOMAIN es : es[j].len # 2
              THEN StylesResult("raised", "ValueError", "", "")
              ELSE StylesResult("returned", "", b.b_style, "MultiPair"))
        ELSE StylesResult("returned", "", b.b_style, "Undetermined")

InitStyles ==
    /\ Idle
    /\ objs = <<>>
    /\ ret = NoCall
    /\ ran = {}
    /\ builds = {}
    /\ arr = NoArrayCall
    /\ mem = NoExecution
    /\ hlg = NoHlgCall
    /\ \E D \in 1..MaxD, bins \in BinsArgs, range \in RangeArgs :
          styles = [status |-> "called", D |-> D, bins |-> bins, range |-> range]

CallBinsRangeStyles ==
    /\ styles.status = "called"
    /\ LET r == BinsRangeStyles(styles.D, styles.bins, styles.range)
       IN  styles' = [status |-> r.status, D |-> styles.D, bins |-> styles.bins,
                      range |-> styles.range, error |-> r.error,
                      b_style |-> r.b_style, r_style |-> r.r_style]
    /\ UNCHANGED graphvars
    /\ UNCHANGED <<arr, mem, hlg>>

NextStyles == CallBinsRangeStyles

SpecStyles == InitStyles /\ [][NextStyles]_vars

\* ------------------------------------------------- shape of the tree
\* Number of combine tasks on the longest path from a key down to a leaf.
RECURSIVE KeyDepth(_, _)
KeyDepth(g, key) ==
    IF key \notin DOMAIN g \/ g[key].func # "empty_safe_aggregate" THEN 0
    ELSE LET below == {KeyDepth(g, g[key].args[j].key) : j \in DOMAIN g[key].args}
         IN  1 + (IF below = {} THEN 0 ELSE CHOOSE m \in below : \A x \in below : x <= m)

TreeDepth == KeyDepth(agg.dask, BareKey(agg.name))

RECURSIVE Pow(_, _)
Pow(x, m) == IF m = 0 THEN 1 ELSE x * Pow(x, m - 1)

\* ceil(log_F(n)) for n >= 1, F >= 2: the least m with F^m >= n.
CeilLog(F, n) == CHOOSE m \in 0..n : Pow(F, m) >= n /\ \A l \in 0..(m - 1) : Pow(F, l) < n

CombineKeys(g) == {key \in DOMAIN g : g[key].func = "empty_safe_aggregate"}

Returned == pc \in {"built", "running", "failed", "computed"}

FinalKey == BareKey(agg.name)

ValidFanIn == call.split_every.tag \in {"None", "False"} \/ call.split_every.val >= 2

\* ------------------------------------------------------------------ C1
\* C1: for n >= 1 partitions and a fan-in of 2, 4, n (False) or any other
\* valid one, whatever the order in which the scheduler ran the tasks, the
\* result held for the aggregate key is the sum of the n partition results,
\* each partition counted exactly once (so it is the same for every fan-in).
C1_FoldCountsEachPartitionOnce ==
    (call.data.npartitions >= 1 /\ ValidFanIn /\ FinalKey \in DOMAIN results)
        => results[FinalKey] = Hist([p \in 0..(call.data.npartitions - 1) |-> 1])

C1_Witness ==
    /\ call.data.npartitions = 5
    /\ call.split_every = IntArg(2)
    /\ red.d = 2
    /\ pc = "computed"
    /\ target = agg
    /\ results[FinalKey] = Hist([p \in 0..4 |-> 1])

\* ------------------------------------------------------------------ C2
\* C2 as stated: for n = 1 the graph _reduction adds holds no combine task.
C2_NoCombineNodeForOnePartition ==
    (Returned /\ call.data.npartitions = 1) => CombineKeys(red.dsk) = {}

\* C2 amended: for n = 1 the while loop builds no level, and the graph
\* _reduction adds is exactly one combine task, keyed by the aggregate name,
\* last of the reduction, whose only argument is the leaf key (name, 0); its
\* result is the result of that leaf.
C2_OnePartitionOneFinalCombine ==
    (Returned /\ call.data.npartitions = 1) =>
        /\ red.d = 0
        /\ DOMAIN red.dsk = {FinalKey}
        /\ red.dsk[FinalKey] = AggregateTask(<<Key(ph.name, 0)>>, TRUE)
        /\ (FinalKey \in DOMAIN results => results[FinalKey] = results[Key(ph.name, 0)])

C2_Witness ==
    /\ call.data.npartitions = 1
    /\ pc = "computed"
    /\ target = agg
    /\ CombineKeys(red.dsk) = {FinalKey}
    /\ out.items = <<Fill(0, 1)>>

\* ------------------------------------------------------------------ C3
\* C3: an integer split_every <= 1 is rejected: _reduction neither returns
\* a graph nor completes an iteration of its loop.
C3_FanInAtMostOneRejected ==
    (call.split_every.tag = "int" /\ call.split_every.val <= 1) =>
        (~Returned /\ ~(pc = "while" /\ red.d > 0))

\* ------------------------------------------------------------------ C4
\* C4 as stated: the depth of the tree is ceil(log_F(n)) for n >= 1, F >= 2.
C4_DepthIsCeilLog ==
    (pc = "built" /\ call.data.npartitions >= 1 /\ red.split_every >= 2) =>
        TreeDepth = CeilLog(red.split_every, call.data.npartitions)

\* C4 amended: for n >= 1 and F >= 2 the depth of the tree is
\* max(1, ceil(log_F(n))): one more than the levels the loop built.
C4_DepthIsCeilLogAtLeastOne ==
    (pc = "built" /\ call.data.npartitions >= 1 /\ red.split_every >= 2) =>
        /\ TreeDepth = Max(1, CeilLog(red.split_every, call.data.npartitions))
        /\ TreeDepth = red.d + 1

C4_Witness ==
    /\ pc = "built"
    /\ call.data.npartitions = 20
    /\ call.split_every = IntArg(4)
    /\ TreeDepth = 3

C9_FinalizeFoldsPartitions ==
    pc = "computed" =>
        LET raw == [j \in DOMAIN DaskKeys(target) |-> results[DaskKeys(target)[j]]]
        IN  IF target.cls = "AggHistogram"
            THEN out = [shape |-> "item", items |-> <<results[FinalKey]>>]
            ELSE out = [shape |-> "item", items |-> <<Sum(raw, ph.npartitions)>>]

\* C9 amended: finalization passes the results through for both kinds of
\* collection: the one result of an aggregated collection, and for a
\* partitioned collection the list of the per-partition results, in
\* partition order and not folded.
C9_FinalizePassesThrough ==
    pc = "computed" =>
        IF target.cls = "AggHistogram"
        THEN out = [shape |-> "item", items |-> <<results[FinalKey]>>]
        ELSE /\ out.shape = "list"
             /\ Len(out.items) = ph.npartitions
             /\ \A j \in 1..ph.npartitions : out.items[j] = Fill(j - 1, ph.npartitions)

C9_Witness ==
    /\ pc = "computed"
    /\ target = ph
    /\ ph.npartitions = 3
    /\ out.shape = "list"
    /\ Len(out.items) = 3

\* ------------------------------------------------------------------ C5
\* C5: an operator or a BinaryOp call over two collections whose
\* descriptors differ (other axes or another storage kind) ends with an
\* error at construction.
C5_NonConformantOperandsRejected ==
    (/\ ret.kind \in {"operator", "BinaryOp"}
     /\ ret.a.isColl /\ ret.b.isColl
     /\ objs[ret.a.h].histref # objs[ret.b.h].histref)
        => ret.status = "raised"

\* ------------------------------------------------------------------ C7
\* C7: a BinaryOp (add, mul, div) called with two operands neither of which
\* is a collection raises, returns no collection and leaves the session's
\* collections as they were.
C7_NoCollectionOperandRaises ==
    [][(ret' # ret /\ ret'.kind = "BinaryOp" /\ ~ret'.a.isColl /\ ~ret'.b.isColl)
          => (/\ ret'.status = "raised"
              /\ ret'.value = NoCollection
              /\ objs' = objs)]_vars

C7_Witness ==
    /\ ret.kind = "BinaryOp"
    /\ ret.sym = "div"
    /\ ~ret.a.isColl /\ ~ret.b.isColl
    /\ ret.status = "raised"
    /\ ret.error = "AttributeError"

\* ------------------------------------------------------------------ C8
\* What holds of every operator call: no collection that was alive changes
\* (graph, key, descriptor), no task runs, and a returned collection is an
\* AggHistogram whose key is none of its operands' keys, nor a key of their
\* graphs, and whose graph holds the operands' graphs and the new key.
OperatorCallFrame ==
    /\ objs' = objs
    /\ ran' = {}
    /\ ret'.status = "returned" =>
          /\ ret'.value.cls = "AggHistogram"
          /\ \A x \in {ret'.a, ret'.b} :
                x.isColl => /\ ret'.value.name # objs[x.h].name
                            /\ BareKey(ret'.value.name) \notin DOMAIN objs[x.h].dask
                            /\ \A key \in DOMAIN objs[x.h].dask :
                                  /\ key \in DOMAIN ret'.value.dask
                                  /\ ret'.value.dask[key] = objs[x.h].dask[key]
          /\ BareKey(ret'.value.name) \in DOMAIN ret'.value.dask

\* C8 as stated: every operator (+, *, /, reflected and in-place) returns a
\* new AggHistogram with a new key, leaves the operands unchanged and runs
\* no task.
C8_EveryOperatorReturnsNewCollection ==
    [][(ret' # ret /\ ret'.kind = "operator")
          => (ret'.status = "returned" /\ OperatorCallFrame)]_vars

\* C8 amended: the same for every operator AggHistogram defines (+, *, /, the
\* reflected + and *, the in-place +=, *=, /=); number / collection, the
\* reflected /, is not defined and raises TypeError, changing nothing.
C8_DefinedOperatorsReturnNewCollection ==
    [][(ret' # ret /\ ret'.kind = "operator")
          => (/\ OperatorCallFrame
              /\ ret'.status = "raised" <=> (ret'.sym = "div" /\ ~ret'.a.isColl)
              /\ ret'.status = "raised" =>
                    (ret'.error = "TypeError" /\ ret'.value = NoCollection))]_vars

C8_Witness ==
    /\ ret.kind = "operator"
    /\ ret.sym = "add"
    /\ ret.inplace
    /\ ret.a = HandleRef(1) /\ ret.b = HandleRef(2)
    /\ ret.status = "returned"
    /\ ret.value.name \notin {objs[1].name, objs[2].name}
    /\ objs[1] = SessionA
    /\ ran = {}

\* ------------------------------------------------------------------ C10
\* Number of inputs in which two builds differ.
DiffCount(o1, o2) ==
    Cardinality({f \in {"kind", "op", "data", "histref", "weights", "fanin", "a", "b"} :
                    o1[f] # o2[f]})

C11_ContentShapeAndEdgeLengths ==
    arr.status \in {"returned", "computed"} =>
        LET axes == arr.agghist.histref.axes
            v == arr.value
        IN  /\ Len(v.content.shape) = Len(axes)
            /\ \A j \in DOMAIN axes :
                  v.content.shape[j] = axes[j].extent + (IF arr.flow THEN 2 ELSE 0)
            /\ v.content.chunks = v.content.shape
            /\ Len(v.edges) = Len(axes)
            /\ \A j \in DOMAIN axes : v.edges[j].shape = <<axes[j].extent + 1>>
            /\ v.length = IF arr.dd THEN 2 ELSE 1 + Len(axes)

C11_Witness ==
    /\ arr.status = "returned"
    /\ arr.flow
    /\ HistShape(arr.agghist.histref) = <<10, 20>>
    /\ arr.value.content.shape = <<12, 22>>
    /\ arr.value.edges[1].shape = <<11>>
    /\ arr.value.edges[2].shape = <<21>>

\* ------------------------------------------------------------------ C12
\* C12: a call of bins_range_styles whose bins are D > 1 integers (MultiScalar)
\* and whose range is not None and does not hold exactly D entries ends with
\* ValueError.
C12_RangeLengthMismatchRejected ==
    (/\ styles.status \in {"returned", "raised"}
     /\ styles.D > 1
     /\ styles.bins.kind = "ints" /\ styles.bins.len = styles.D
     /\ ~styles.range.isNone
     /\ Len(styles.range.entries) # styles.D)
        => (styles.status = "raised" /\ styles.error = "ValueError")

\* ------------------------------------------------------------------ C13
\* The keys (name, i), i >= 0, of a graph.
LevelKeys(g, name) == {key \in DOMAIN g : key.name = name /\ key.idx >= 0}

\* The nodes of level d of the graph _reduction built: the red.d levels of
\* the loop, then the last node.
LevelNodes(d) ==
    IF d = red.d THEN {FinalKey} ELSE LevelKeys(red.dsk, LevelName(red.fmt, d))

\* The name of the keys level d reads, and how many they are.
LevelInputName(d) == IF d = 0 THEN ph.name ELSE LevelName(red.fmt, d - 1)

LevelInputCount(d) ==
    IF d = 0 THEN ph.npartitions ELSE Cardinality(LevelNodes(d - 1))

\* C13: in the graph _reduction built for n partitions and a fan-in bound
\* F >= 2, every combine node takes at most F keys, all of the level just
\* before and of consecutive indices; every key of a level (every leaf key
\* (name, i), 0 <= i < n, included) is an argument of exactly one node of the
\* next level; a level is built only while more than F keys are left, and
\* the last level is one node, over at most F keys, keyed by the bare
\* aggregate name, the only key of the aggregated collection.
C13_TreeStructure ==
    (pc = "built" /\ red.split_every >= 2) =>
        /\ DOMAIN red.dsk = UNION {LevelNodes(d) : d \in 0..red.d}
        /\ \A d \in 0..red.d :
              LET nodes == LevelNodes(d)
                  prev == LevelInputName(d)
                  cnt == LevelInputCount(d)
              IN  /\ d < red.d =>
                        (cnt > red.split_every /\
                         nodes = {Key(LevelName(red.fmt, d), i) :
                                     i \in 0..(Cardinality(nodes) - 1)})
                  /\ d = red.d => cnt <= red.split_every
                  /\ \A node \in nodes :
                        LET args == red.dsk[node].args
                        IN  /\ red.dsk[node].func = "empty_safe_aggregate"
                            /\ red.dsk[node].is_last = (d = red.d)
                            /\ Len(args) <= red.split_every
                            /\ \A j \in DOMAIN args :
                                  /\ args[j].isKey
                                  /\ args[j].key.name = prev
                                  /\ args[j].key.idx \in 0..(cnt - 1)
                                  /\ args[j].key.idx = args[1].key.idx + j - 1
                  /\ \A i \in 0..(cnt - 1) :
                        Cardinality({x \in nodes \X (1..red.split_every) :
                                        /\ x[2] \in DOMAIN red.dsk[x[1]].args
                                        /\ red.dsk[x[1]].args[x[2]].key = Key(prev, i)}) = 1
        /\ DaskKeys(agg) = <<FinalKey>>
        /\ \A key \in DOMAIN red.dsk : agg.dask[key] = red.dsk[key]
        /\ \A i \in 0..(ph.npartitions - 1) : Key(ph.name, i) \in DOMAIN agg.dask

C13_Witness ==
    /\ pc = "built"
    /\ call.data.npartitions = 20
    /\ red.split_every = 3
    /\ red.d = 2
    /\ Cardinality(LevelNodes(0)) = 7
    /\ Cardinality(LevelNodes(1)) = 3
    /\ Len(red.dsk[Key(LevelName(red.fmt, 0), 6)].args) = 2

\* ------------------------------------------------------------------ C14
\* C14: when a collection x and the result c of an operator over x (x + b,
\* x * s, x / s and their reflected and in-place spellings) are executed in
\* one execution, the result returned for x is the object x's own task
\* returned, as executing x alone returns it: no operator task changed it.
C14_OperandResultUnchanged ==
    mem.status = "returned" =>
        mem.results[1] = mem.fresh[BareKey(mem.operand.name)]

\* ------------------------------------------------------------------ C15
\* C15: with split_every unset (4), False (n) or an integer >= 2, and any
\* partition count n >= 0, _reduction of core.py and _reduction of hlg.py
\* terminate: every iteration of the while loop makes k strictly smaller,
\* and the loop is left, with k <= split_every, and the call returns.
C15_ReductionTerminates ==
    /\ [][(ValidFanIn /\ pc = "while" /\ red' # red /\ pc' # "built")
             => (pc' = "while" /\ red'.k < red.k /\ red'.k >= 1)]_vars
    /\ [][(ValidFanIn /\ hlg.pc = "while" /\ hlg' # hlg /\ hlg'.pc # "built")
             => (hlg'.pc = "while" /\ hlg'.r.k < hlg.r.k /\ hlg'.r.k >= 1)]_vars
    /\ ValidFanIn ~> (pc = "built" /\ red.k <= red.split_every)
    /\ ValidFanIn ~> (hlg.pc = "built" /\ hlg.r.k <= hlg.r.split_every)

C15_Witness ==
    /\ call.data.npartitions = 20
    /\ call.split_every = IntArg(2)
    /\ pc = "built" /\ red.d = 4 /\ red.k = 2
    /\ hlg.pc = "built" /\ hlg.r.d = 4 /\ hlg.r.k = 2

=============================================================================
